---- MODULE Spec2Model ----
(***************************************************************************)
(* The streaming run controller of frontend/app/page.tsx: the Page         *)
(* component's state (useState / useRef), its handlers (startStream,       *)
(* stopStream, resetRun, the "agent" / "final" / onerror listeners of the  *)
(* EventSource, the docs loader of the mount effect) and the enabling      *)
(* conditions the JSX puts on the buttons.                                 *)
(*                                                                         *)
(* Optional JSON fields are modelled as sequences of length <= 1:          *)
(* <<>> is "undefined", <<v>> is the value v.                              *)
(***************************************************************************)
EXTENDS Integers, Sequences, FiniteSets, TLC

VARIABLES
    question,        \* useState<string>: the textarea's text, a sequence of characters
    docs,            \* useState<string[]>
    docId,           \* useState<string>
    docsLoad,        \* position of the mount effect's async loader: "pending" | "loaded" | "failed"
    events,          \* useState<Record<AgentName, AgentEvent>>
    finalResult,     \* useState<FinalPayload | null>
    errorMsg,        \* useState<string>
    isStreaming,     \* useState<boolean>
    eventSourceRef,  \* useRef<EventSource | null>: 0 is null, h > 0 the h-th EventSource created
    esOpen,          \* the EventSource objects that are not closed (readyState # CLOSED)
    esCount,         \* how many EventSource objects were created so far
    mounted,         \* whether the Page component is mounted
    nAgentEvents,    \* how many "agent" events were delivered so far
    last             \* the handler that ran last

vars == <<question, docs, docId, docsLoad, events, finalResult, errorMsg,
          isStreaming, eventSourceRef, esOpen, esCount, mounted, nAgentEvents, last>>

-----------------------------------------------------------------------------
(* Bounds of the model *)

\* EventSource objects one component creates
MaxStreams == 2

\* "agent" events delivered to one component
MaxAgentEvents == 2

-----------------------------------------------------------------------------
(* Data *)

Absent == <<>>
Some(v) == <<v>>

\* AGENTS[i].key, in pipeline order
AGENTS == <<"relevance", "retrieval", "research", "verify">>

AgentName == {AGENTS[i] : i \in 1..Len(AGENTS)}

\* the initial AgentEvent of a stage: { agent, status: "idle" }
IdleEvent(a) ==
    [agent |-> a, status |-> "idle", summary |-> Absent, ms |-> Absent, details |-> Absent]

\* the record literal of useState's initialiser and of resetRun
InitialEvents == [a \in AgentName |-> IdleEvent(a)]

\* the value null, and what JSON.parse gives for the text "null"
JsNull == [kind |-> "null"]

\* JavaScript truthiness of an optional string field
Truthy(f) == f # Absent /\ f[1] # ""

\* String.prototype.trim on a sequence of characters
RECURSIVE TrimStart(_)
TrimStart(s) ==
    IF s = <<>> THEN s
    ELSE IF Head(s) = " " THEN TrimStart(Tail(s)) ELSE s

RECURSIVE TrimEnd(_)
TrimEnd(s) ==
    IF s = <<>> THEN s
    ELSE IF s[Len(s)] = " " THEN TrimEnd(SubSeq(s, 1, Len(s) - 1)) ELSE s

trim(s) == TrimEnd(TrimStart(s))

\* texts the user types into the textarea
Questions == {<<>>, <<" ">>, <<" ", "a", " ">>}

\* lists GET /api/docs answers with
DocLists == {<<>>, <<"d1", "d2">>}

-----------------------------------------------------------------------------
(* Frames of the stream: evt.data is a text that is JSON or is not *)

Garbage == [ok |-> FALSE]
Text(json) == [ok |-> TRUE, json |-> json]

safeJsonParse(s) == IF s.ok THEN s.json ELSE JsNull

AgentObj(agent, status, summary, ms) ==
    [kind |-> "object", agent |-> agent, status |-> status, summary |-> summary, ms |-> ms]

\* bodies of "agent" events the backend (or a broken one) sends
AgentFrames ==
    {Garbage}
    \cup {Text(AgentObj(Some(a), Some("done"), Some("Found relevant content"), Some(7))) :
            a \in {"relevance", "retrieval", "verify", "planner"}}
    \cup {Text(AgentObj(Some("verify"), Some("running"), Absent, Absent)),
          Text(AgentObj(Some("relevance"), Absent, Some("no status"), Absent)),
          Text(AgentObj(Absent, Some("done"), Some("no agent"), Absent))}

FinalObj(error, draft_answer) ==
    [kind |-> "object", error |-> error, draft_answer |-> draft_answer]

\* bodies of "final" events
FinalFrames ==
    {Garbage, Text(JsNull),
     Text(FinalObj(Some("LLM quota exceeded"), Absent)),
     Text(FinalObj(Some(""), Absent)),
     Text(FinalObj(Absent, Some("Refunds within 30 days.")))}

\* data?.agent and data?.error: undefined on null
FieldAgent(data) == IF data = JsNull THEN Absent ELSE data.agent
FieldError(data) == IF data = JsNull THEN Absent ELSE data.error

-----------------------------------------------------------------------------
(* Derived state *)

overallStatus ==
    IF isStreaming THEN "RUNNING"
    ELSE IF errorMsg # "" THEN "ERROR"
    ELSE IF finalResult # JsNull THEN "DONE"
    ELSE "IDLE"

MsgNoQuestion == "Please enter a question."
MsgNoDoc == "Please select a document."
MsgStream == "Stream error (backend unreachable or crashed). Check FastAPI logs."
MsgDocs == "Failed to load built-in documents."

\* what `last` records of a handler that takes no event
Op(name) == [op |-> name, h |-> 0, frame |-> Absent]

-----------------------------------------------------------------------------
Init ==
    /\ question = <<>>
    /\ docs = <<>>
    /\ docId = ""
    /\ docsLoad = "pending"
    /\ events = InitialEvents
    /\ finalResult = JsNull
    /\ errorMsg = ""
    /\ isStreaming = FALSE
    /\ eventSourceRef = 0
    /\ esOpen = {}
    /\ esCount = 0
    /\ mounted = TRUE
    /\ nAgentEvents = 0
    /\ last = Op("mount")

-----------------------------------------------------------------------------
(* The handlers.  A state setter of an unmounted component does nothing;   *)
(* the ref and the EventSource objects are plain objects and still change. *)

Set(old, new) == IF mounted THEN new ELSE old

\* resetRun without setFinalResult(null)
resetRunKeepsResult ==
    /\ errorMsg' = ""
    /\ finalResult' = finalResult
    /\ events' = InitialEvents

\* resetRun's three setters
resetRun ==
    /\ errorMsg' = ""
    /\ finalResult' = JsNull
    /\ events' = InitialEvents

\* stopStream without setIsStreaming(false)
stopStreamKeepsFlag ==
    /\ esOpen' = IF eventSourceRef # 0 THEN esOpen \ {eventSourceRef} ELSE esOpen
    /\ eventSourceRef' = 0
    /\ isStreaming' = isStreaming

\* stopStream without the close() call: the ref is dropped, the connection lives on
stopStreamNoClose ==
    /\ esOpen' = esOpen
    /\ eventSourceRef' = 0
    /\ isStreaming' = Set(isStreaming, FALSE)

\* stopStream: close the EventSource the ref holds, null the ref, clear the flag
stopStream ==
    /\ esOpen' = IF eventSourceRef # 0 THEN esOpen \ {eventSourceRef} ELSE esOpen
    /\ eventSourceRef' = 0
    /\ isStreaming' = Set(isStreaming, FALSE)

\* startStream whose validations return without setErrorMsg
startStreamSilentValidation ==
    LET q == trim(question) IN
    IF q = <<>> \/ docId = "" THEN
        /\ errorMsg' = ""
        /\ finalResult' = JsNull
        /\ events' = InitialEvents
        /\ UNCHANGED <<isStreaming, eventSourceRef, esOpen, esCount>>
    ELSE
        /\ esCount < MaxStreams
        /\ errorMsg' = ""
        /\ finalResult' = JsNull
        /\ events' = [InitialEvents EXCEPT !["relevance"].status = "running"]
        /\ isStreaming' = TRUE
        /\ esCount' = esCount + 1
        /\ eventSourceRef' = esCount + 1
        /\ esOpen' = esOpen \cup {esCount + 1}

\* startStream without its resetRun() call: the previous run's result, error
\* and trace survive the new start
startStreamNoReset ==
    LET q == trim(question) IN
    IF q = <<>> THEN
        /\ errorMsg' = MsgNoQuestion
        /\ UNCHANGED <<finalResult, events, isStreaming, eventSourceRef, esOpen, esCount>>
    ELSE IF docId = "" THEN
        /\ errorMsg' = MsgNoDoc
        /\ UNCHANGED <<finalResult, events, isStreaming, eventSourceRef, esOpen, esCount>>
    ELSE
        /\ esCount < MaxStreams
        /\ UNCHANGED <<errorMsg, finalResult>>
        /\ events' = [events EXCEPT !["relevance"].status = "running"]
        /\ isStreaming' = TRUE
        /\ esCount' = esCount + 1
        /\ eventSourceRef' = esCount + 1
        /\ esOpen' = esOpen \cup {esCount + 1}

\* startStream: resetRun, the two validations, then the new EventSource
startStream ==
    LET q == trim(question) IN
    IF q = <<>> THEN
        /\ errorMsg' = MsgNoQuestion
        /\ finalResult' = JsNull
        /\ events' = InitialEvents
        /\ UNCHANGED <<isStreaming, eventSourceRef, esOpen, esCount>>
    ELSE IF docId = "" THEN
        /\ errorMsg' = MsgNoDoc
        /\ finalResult' = JsNull
        /\ events' = InitialEvents
        /\ UNCHANGED <<isStreaming, eventSourceRef, esOpen, esCount>>
    ELSE
        /\ esCount < MaxStreams
        /\ errorMsg' = ""
        /\ finalResult' = JsNull
        /\ events' = [InitialEvents EXCEPT !["relevance"].status = "running"]
        /\ isStreaming' = TRUE
        /\ esCount' = esCount + 1
        /\ eventSourceRef' = esCount + 1
        /\ esOpen' = esOpen \cup {esCount + 1}

\* the AgentEvent the "agent" listener builds from a parsed payload
AgentEventOf(data) ==
    [agent |-> data.agent[1],
     status |-> IF Truthy(data.status) THEN data.status[1] ELSE "running",
     summary |-> data.summary,
     ms |-> data.ms,
     details |-> Some(data)]

\* the "agent" listener testing `!data` where the code tests `!data?.agent`:
\* a payload without agent is stored under the key "undefined"
ApplyAgentNoAgentCheck(prev, data) ==
    IF data = JsNull THEN prev
    ELSE LET key == IF Truthy(data.agent) THEN data.agent[1] ELSE "undefined" IN
         [k \in DOMAIN prev \cup {key} |->
            IF k = key
            THEN [agent |-> key,
                  status |-> IF Truthy(data.status) THEN data.status[1] ELSE "running",
                  summary |-> data.summary, ms |-> data.ms, details |-> Some(data)]
            ELSE prev[k]]

\* the "agent" listener spreading the stage's previous state under the new
\* fields: a summary or ms the event lacks is carried over
ApplyAgentMerge(prev, data) ==
    IF ~Truthy(FieldAgent(data)) THEN prev
    ELSE [k \in DOMAIN prev \cup {data.agent[1]} |->
            IF k # data.agent[1] THEN prev[k]
            ELSE IF k \notin DOMAIN prev THEN AgentEventOf(data)
            ELSE [AgentEventOf(data) EXCEPT
                    !.summary = IF data.summary = Absent THEN prev[k].summary ELSE data.summary,
                    !.ms = IF data.ms = Absent THEN prev[k].ms ELSE data.ms]]

\* the "agent" listener's update of events: { ...prev, [agent]: {...} }
ApplyAgent(prev, data) ==
    IF ~Truthy(FieldAgent(data)) THEN prev
    ELSE [k \in DOMAIN prev \cup {data.agent[1]} |->
            IF k = data.agent[1] THEN AgentEventOf(data) ELSE prev[k]]

\* the "final" listener's two setters
FinalError(prev, data) == IF Truthy(FieldError(data)) THEN data.error[1] ELSE prev

\* the "final" listener with `if (data)` in place of `else if (data)`
FinalResultOfNoElse(prev, data) == IF data # JsNull THEN data ELSE prev

FinalResultOf(prev, data) ==
    IF Truthy(FieldError(data)) THEN prev
    ELSE IF data # JsNull THEN data
    ELSE prev

\* es.onerror marking as error the first stage, in pipeline order, that is
\* neither done nor error
RECURSIVE FirstPending(_, _)
FirstPending(prev, i) ==
    IF i > Len(AGENTS) THEN 0
    ELSE IF prev[AGENTS[i]].status \notin {"done", "error"} THEN i
    ELSE FirstPending(prev, i + 1)

ErrorEventsFirstPending(prev) ==
    LET i == FirstPending(prev, 1) IN
    IF i = 0 THEN prev ELSE [prev EXCEPT ![AGENTS[i]].status = "error"]

\* es.onerror marking verify as error whatever its status
ErrorEventsAlways(prev) == [prev EXCEPT !["verify"].status = "error"]

\* es.onerror's update of events: verify becomes error unless it is done
ErrorEvents(prev) ==
    [prev EXCEPT !["verify"].status = IF prev["verify"].status = "done" THEN "done" ELSE "error"]

\* the Run button's disabled attribute
RunDisabled == isStreaming \/ trim(question) = <<>> \/ docId = ""

\* the Stop button is rendered only while streaming
StopRendered == isStreaming

\* an EventSource dispatches events only while it is not closed
Dispatches(h) == h \in esOpen

-----------------------------------------------------------------------------
(* The steps of the page *)

TypeQuestion(q) ==
    /\ mounted
    /\ question' = q
    /\ last' = Op("setQuestion")
    /\ UNCHANGED <<docs, docId, docsLoad, events, finalResult, errorMsg, isStreaming,
                   eventSourceRef, esOpen, esCount, mounted, nAgentEvents>>

DocsLoaded(list) ==
    /\ mounted
    /\ docsLoad = "pending"
    /\ docsLoad' = "loaded"
    /\ docs' = list
    /\ docId' = IF list # <<>> THEN list[1] ELSE docId
    /\ last' = Op("docsLoaded")
    /\ UNCHANGED <<question, events, finalResult, errorMsg, isStreaming,
                   eventSourceRef, esOpen, esCount, mounted, nAgentEvents>>

DocsFailed ==
    /\ mounted
    /\ docsLoad = "pending"
    /\ docsLoad' = "failed"
    /\ errorMsg' = MsgDocs
    /\ last' = Op("docsFailed")
    /\ UNCHANGED <<question, docs, docId, events, finalResult, isStreaming,
                   eventSourceRef, esOpen, esCount, mounted, nAgentEvents>>

SelectDoc(i) ==
    /\ mounted
    /\ i \in 1..Len(docs)
    /\ docId' = docs[i]
    /\ last' = Op("setDocId")
    /\ UNCHANGED <<question, docs, docsLoad, events, finalResult, errorMsg, isStreaming,
                   eventSourceRef, esOpen, esCount, mounted, nAgentEvents>>

\* startStream called as an operation of the controller
CallStart ==
    /\ mounted
    /\ startStream
    /\ last' = Op("startStream")
    /\ UNCHANGED <<question, docs, docId, docsLoad, mounted, nAgentEvents>>

\* a click on "Run agents"
ClickRun ==
    /\ ~RunDisabled
    /\ CallStart

\* stopStream as a cancel that also clears the run, as resetRun does
CallStopAndReset ==
    /\ mounted
    /\ stopStream
    /\ resetRun
    /\ last' = Op("stopStream")
    /\ UNCHANGED <<question, docs, docId, docsLoad, esCount, mounted, nAgentEvents>>

\* stopStream called as an operation of the controller
CallStop ==
    /\ mounted
    /\ stopStream
    /\ last' = Op("stopStream")
    /\ UNCHANGED <<question, docs, docId, docsLoad, events, finalResult, errorMsg,
                   esCount, mounted, nAgentEvents>>

\* a click on "Stop"
ClickStop ==
    /\ StopRendered
    /\ CallStop

\* a click on "Reset"
ClickReset ==
    /\ mounted
    /\ resetRun
    /\ last' = Op("resetRun")
    /\ UNCHANGED <<question, docs, docId, docsLoad, isStreaming, eventSourceRef,
                   esOpen, esCount, mounted, nAgentEvents>>

\* an "agent" event of EventSource h
OnAgent(h, raw) ==
    /\ Dispatches(h)
    /\ nAgentEvents < MaxAgentEvents
    /\ nAgentEvents' = nAgentEvents + 1
    /\ events' = Set(events, ApplyAgent(events, safeJsonParse(raw)))
    /\ last' = [op |-> "agent", h |-> h, frame |-> Some(raw)]
    /\ UNCHANGED <<question, docs, docId, docsLoad, finalResult, errorMsg, isStreaming,
                   eventSourceRef, esOpen, esCount, mounted>>

\* the "final" listener without its stopStream() call
OnFinalNoStop(h, raw) ==
    /\ Dispatches(h)
    /\ errorMsg' = Set(errorMsg, FinalError(errorMsg, safeJsonParse(raw)))
    /\ finalResult' = Set(finalResult, FinalResultOf(finalResult, safeJsonParse(raw)))
    /\ last' = [op |-> "final", h |-> h, frame |-> Some(raw)]
    /\ UNCHANGED <<question, docs, docId, docsLoad, events, esCount, mounted, nAgentEvents,
                   esOpen, eventSourceRef, isStreaming>>

\* a "final" event of EventSource h
OnFinal(h, raw) ==
    /\ Dispatches(h)
    /\ errorMsg' = Set(errorMsg, FinalError(errorMsg, safeJsonParse(raw)))
    /\ finalResult' = Set(finalResult, FinalResultOf(finalResult, safeJsonParse(raw)))
    /\ stopStream
    /\ last' = [op |-> "final", h |-> h, frame |-> Some(raw)]
    /\ UNCHANGED <<question, docs, docId, docsLoad, events, esCount, mounted, nAgentEvents>>

\* es.onerror without its stopStream() call: the EventSource is left to reconnect
OnErrorNoStop(h) ==
    /\ Dispatches(h)
    /\ errorMsg' = Set(errorMsg, MsgStream)
    /\ events' = Set(events, ErrorEvents(events))
    /\ last' = [op |-> "onerror", h |-> h, frame |-> Absent]
    /\ UNCHANGED <<question, docs, docId, docsLoad, finalResult, esCount, mounted, nAgentEvents,
                   esOpen, eventSourceRef, isStreaming>>

\* an error event of EventSource h
OnError(h) ==
    /\ Dispatches(h)
    /\ stopStream
    /\ errorMsg' = Set(errorMsg, MsgStream)
    /\ events' = Set(events, ErrorEvents(events))
    /\ last' = [op |-> "onerror", h |-> h, frame |-> Absent]
    /\ UNCHANGED <<question, docs, docId, docsLoad, finalResult, esCount, mounted, nAgentEvents>>

\* the component is torn down: the mount effect's cleanup is all that runs
Unmount ==
    /\ mounted
    /\ mounted' = FALSE
    /\ last' = Op("unmount")
    /\ UNCHANGED <<question, docs, docId, docsLoad, events, finalResult, errorMsg, isStreaming,
                   eventSourceRef, esOpen, esCount, nAgentEvents>>

Handles == 1..MaxStreams

\* the page as the user and the stream drive it
Next ==
    \/ \E q \in Questions : TypeQuestion(q)
    \/ \E list \in DocLists : DocsLoaded(list)
    \/ DocsFailed
    \/ \E i \in 1..2 : SelectDoc(i)
    \/ ClickRun
    \/ ClickStop
    \/ ClickReset
    \/ \E h \in Handles, raw \in AgentFrames : OnAgent(h, raw)
    \/ \E h \in Handles, raw \in FinalFrames : OnFinal(h, raw)
    \/ \E h \in Handles : OnError(h)
    \/ Unmount

Spec == Init /\ [][Next]_vars

\* the handlers called as the controller's operations start / cancel / reset,
\* in any state and with any inputs, while the component is mounted
NextCtl ==
    \/ \E q \in Questions : TypeQuestion(q)
    \/ \E list \in DocLists : DocsLoaded(list)
    \/ DocsFailed
    \/ \E i \in 1..2 : SelectDoc(i)
    \/ CallStart
    \/ CallStop
    \/ ClickReset
    \/ \E h \in Handles, raw \in AgentFrames : OnAgent(h, raw)
    \/ \E h \in Handles, raw \in FinalFrames : OnFinal(h, raw)
    \/ \E h \in Handles : OnError(h)

SpecCtl == Init /\ [][NextCtl]_vars

-----------------------------------------------------------------------------
(* Properties *)

\* a start that fails one of startStream's two validations is being taken
InvalidStart == last'.op = "startStream" /\ (trim(question) = <<>> \/ docId = "")

\* the payload of the "final" event that ran last
LastFinal == safeJsonParse(last.frame[1])

\* C1: at most one stream connection is open at any time, whatever the
\* sequence of start, cancel, reset and stream events; a start issued while a
\* stream is open closes it before opening the new one.
C1_AtMostOneOpenStream == Cardinality(esOpen) <= 1

\* C2: reset, in any phase, ends with the stream closed, the phase idle, every
\* stage idle with summary / timing / payload cleared, and result and
\* errorMessage cleared.
C2_ResetClosesAndIdles ==
    last.op = "resetRun" =>
        /\ esOpen = {}
        /\ eventSourceRef = 0
        /\ overallStatus = "IDLE"
        /\ events = InitialEvents
        /\ finalResult = JsNull
        /\ errorMsg = ""

\* the edges idle -> running -> {done | error} and running -> idle
PhaseEdges ==
    {<<"IDLE", "RUNNING">>, <<"RUNNING", "DONE">>, <<"RUNNING", "ERROR">>, <<"RUNNING", "IDLE">>}

C4_FinalReachesDoneOrError ==
    (mounted /\ last.op = "final") => overallStatus \in {"DONE", "ERROR"}

\* C5: a start with an empty or whitespace-only question (or no document)
\* opens no stream and leaves every stage's state as it was.
C5_InvalidStartKeepsStages ==
    [][InvalidStart => (esOpen' = esOpen /\ esCount' = esCount /\ events' = events)]_vars

C7_StreamClosedOnEveryExit ==
    (~mounted \/ overallStatus # "RUNNING") => esOpen = {}

\* C8: after a final event carrying a non-empty error text, the phase is
\* error, errorMessage is that text, the stream is closed and result is unset.
C8_FinalErrorEndsInError ==
    (mounted /\ last.op = "final" /\ Truthy(FieldError(LastFinal))) =>
        /\ overallStatus = "ERROR"
        /\ errorMsg = LastFinal.error[1]
        /\ last.h \notin esOpen
        /\ eventSourceRef = 0
        /\ finalResult = JsNull

\* the final event {error: "LLM quota exceeded"} has just been handled
C8_Witness ==
    /\ mounted
    /\ last.op = "final"
    /\ errorMsg = "LLM quota exceeded"
    /\ nAgentEvents > 0

\* a "final" event whose payload is an object without an error field is being handled
FinalWithoutError ==
    /\ mounted
    /\ last'.op = "final"
    /\ safeJsonParse(last'.frame[1]) # JsNull
    /\ safeJsonParse(last'.frame[1]).error = Absent

\* C9: a final event whose payload has no error field sets result to the
\* payload, makes the phase done and closes the stream, and leaves the stage
\* states recorded so far as they are.
C9_FinalSuccessEndsInDone ==
    [][FinalWithoutError =>
        /\ finalResult' = safeJsonParse(last'.frame[1])
        /\ overallStatus' = "DONE"
        /\ last'.h \notin esOpen'
        /\ eventSourceRef' = 0
        /\ events' = events]_vars

\* the scenario of the specification: relevance reported done, then the final answer
C9_Witness ==
    /\ mounted
    /\ last.op = "final"
    /\ finalResult = FinalObj(Absent, Some("Refunds within 30 days."))
    /\ events["relevance"].status = "done"
    /\ events["relevance"].summary = Some("Found relevant content")

\* C10: a transport failure makes the phase error with a non-empty
\* errorMessage and closes the stream; verify becomes error unless it was done,
\* keeping its other fields, and every other stage keeps its state.
C10_TransportFailureEndsInError ==
    [][(mounted /\ last'.op = "onerror") =>
        /\ overallStatus' = "ERROR"
        /\ errorMsg' # ""
        /\ last'.h \notin esOpen'
        /\ eventSourceRef' = 0
        /\ events'["verify"].status =
              (IF events["verify"].status = "done" THEN "done" ELSE "error")
        /\ events' = [events EXCEPT !["verify"].status = events'["verify"].status]]_vars

\* the transport failed while relevance was still running and verify was done
C10_Witness ==
    /\ mounted
    /\ last.op = "onerror"
    /\ events["relevance"].status = "running"
    /\ events["verify"].status = "done"

\* a listener of EventSource last'.h is running
ListenerStep == last'.op \in {"agent", "final", "onerror"}

\* what the listeners and the buttons write of the run: tracker, result, error, flag
runState == <<events, finalResult, errorMsg, isStreaming>>

\* C11: a cancel while the phase is running returns the phase to idle and
\* releases the stream, and a stage event, final event or transport error of
\* a stream that is not the controller's live handle changes neither the
\* tracker, the result, errorMessage nor the phase.
C11_CancelReleasesAndSilences ==
    [][/\ (last'.op = "stopStream" /\ overallStatus = "RUNNING") =>
            /\ overallStatus' = "IDLE"
            /\ esOpen' = {}
            /\ eventSourceRef' = 0
       /\ (ListenerStep /\ last'.h # eventSourceRef) => UNCHANGED runState]_vars

\* a run that had received a stage event was cancelled
C11_Witness ==
    /\ mounted
    /\ last.op = "stopStream"
    /\ nAgentEvents > 0
    /\ esCount > 0
    /\ esOpen = {}
    /\ overallStatus = "IDLE"

\* C12: cancel alters no stage state, no captured result and no error message,
\* and after a terminal state (done or error) it changes nothing at all.
C12_CancelKeepsTrackerAndTerminal ==
    [][last'.op = "stopStream" =>
        /\ events' = events
        /\ finalResult' = finalResult
        /\ errorMsg' = errorMsg
        /\ overallStatus \in {"DONE", "ERROR"} =>
              /\ overallStatus' = overallStatus
              /\ UNCHANGED <<question, docs, docId, docsLoad, isStreaming, eventSourceRef,
                             esOpen, esCount, mounted, nAgentEvents>>]_vars

\* cancel was called after the run had ended in done
C12_Witness ==
    /\ last.op = "stopStream"
    /\ overallStatus = "DONE"
    /\ finalResult = FinalObj(Absent, Some("Refunds within 30 days."))

\* the payload of the "agent" event that ran last is unparseable or lacks agent
MalformedAgent(l) == l.op = "agent" /\ ~Truthy(FieldAgent(safeJsonParse(l.frame[1])))

\* C13: a stage event whose payload is unparseable or lacks the agent field
\* changes no stage state, nor phase, result or errorMessage, and leaves the
\* stream open.
C13_MalformedStageEventDropped ==
    [][MalformedAgent(last') =>
        /\ UNCHANGED <<events, finalResult, errorMsg, isStreaming, eventSourceRef, esOpen>>
        /\ overallStatus' = overallStatus
        /\ last'.h \in esOpen']_vars

\* a stage event without agent has just been dropped and the run goes on
C13_Witness ==
    /\ mounted
    /\ MalformedAgent(last)
    /\ last.frame[1] # Garbage
    /\ overallStatus = "RUNNING"
    /\ last.h \in esOpen

\* the stage named by the "agent" event that is being handled, "" if it names none
StageOf(l) ==
    IF l.op = "agent" /\ Truthy(FieldAgent(safeJsonParse(l.frame[1])))
    THEN safeJsonParse(l.frame[1]).agent[1]
    ELSE ""

\* C14: a stage event naming a stage outside the four known ones is not
\* applied: the tracker's keys are the four known stages before and after, and
\* their states are unchanged.
C14_UnknownStageIgnored ==
    [][(mounted /\ StageOf(last') # "" /\ StageOf(last') \notin AgentName) =>
        /\ DOMAIN events = AgentName
        /\ DOMAIN events' = AgentName
        /\ events' = events]_vars

\* C15: a stage event naming a known stage overwrites that stage's state
\* with the event's fields (status, or running when the event has none;
\* summary; ms; the raw payload), carrying nothing over, and leaves every
\* other stage's state as it was; so each stage shows its last event, and a
\* stage with no event its state from start.
C15_LastEventPerStageWins ==
    [][(mounted /\ StageOf(last') \in AgentName) =>
        LET a == StageOf(last')
            data == safeJsonParse(last'.frame[1])
        IN /\ events'[a].agent = a
           /\ events'[a].status = (IF data.status \in {Absent, Some("")} THEN "running"
                                   ELSE data.status[1])
           /\ events'[a].summary = data.summary
           /\ events'[a].ms = data.ms
           /\ events'[a].details = Some(data)
           /\ \A k \in DOMAIN events \ {a} : events'[k] = events[k]
           /\ DOMAIN events' = DOMAIN events]_vars

\* verify was reported done with a summary and then running without one, and
\* no event named retrieval
C15_Witness ==
    /\ mounted
    /\ nAgentEvents = 2
    /\ last.op = "agent"
    /\ last.frame = Some(Text(AgentObj(Some("verify"), Some("running"), Absent, Absent)))
    /\ events["verify"].summary = Absent
    /\ events["verify"].ms = Absent
    /\ events["retrieval"] = IdleEvent("retrieval")
    /\ events["relevance"].status = "running"

\* C16: a start with valid inputs, from idle, done or error, leaves every stage
\* idle with no summary / timing / payload except relevance, which is running;
\* result and errorMessage cleared; the phase running; and one stream open,
\* held by the ref.
C16_ValidStartBeginsFreshRun ==
    [][(last'.op = "startStream" /\ trim(question) # <<>> /\ docId # ""
            /\ overallStatus \in {"IDLE", "DONE", "ERROR"}) =>
        /\ events' = [InitialEvents EXCEPT !["relevance"].status = "running"]
        /\ finalResult' = JsNull
        /\ errorMsg' = ""
        /\ overallStatus' = "RUNNING"
        /\ Cardinality(esOpen') = 1
        /\ eventSourceRef' \in esOpen']_vars

\* a second run has just been started
C16_Witness ==
    /\ last.op = "startStream"
    /\ esCount = 2
    /\ overallStatus = "RUNNING"
    /\ nAgentEvents > 0

\* C17: a transport failure leaves no stream open, only a start opens a
\* stream, and only an open stream has its events handled: after a failure
\* nothing is reopened and no event is applied until start is called again.
C17_NoAutomaticRetry ==
    [][/\ (esOpen' \ esOpen # {} \/ esCount' # esCount) => last'.op = "startStream"
       /\ last'.op = "onerror" => (esOpen' = {} /\ eventSourceRef' = 0)
       /\ ListenerStep => last'.h \in esOpen]_vars

\* the transport failed and the user has since typed, with no stream reopened
C17_Witness ==
    /\ mounted
    /\ last.op = "setQuestion"
    /\ errorMsg = MsgStream
    /\ overallStatus = "ERROR"
    /\ esOpen = {}

\* C18: right after the transport-error handler, its updates are a fixed
\* point of the state: running them a second time would leave phase,
\* errorMessage, result and every stage's state as the first run left them.
C18_TransportErrorIdempotent ==
    (mounted /\ last.op = "onerror") =>
        /\ ErrorEvents(events) = events
        /\ errorMsg = MsgStream
        /\ ~isStreaming
        /\ eventSourceRef = 0
        /\ overallStatus = "ERROR"

\* the transport failed while relevance was running and verify had not finished
C18_Witness ==
    /\ mounted
    /\ last.op = "onerror"
    /\ events["verify"].status = "error"
    /\ events["relevance"].status = "running"
    /\ nAgentEvents > 0

\* C19: reset leaves every stage idle with no summary / timing / payload and
\* result and errorMessage cleared, and a reset right after a reset changes
\* none of them.
C19_ResetIdempotent ==
    [][last'.op = "resetRun" =>
        /\ events' = InitialEvents
        /\ finalResult' = JsNull
        /\ errorMsg' = ""
        /\ last.op = "resetRun" => UNCHANGED <<events, finalResult, errorMsg>>]_vars

\* a run that received stage events and ended was reset
C19_Witness ==
    /\ last.op = "resetRun"
    /\ nAgentEvents > 0
    /\ esCount > 0
    /\ events = InitialEvents
    /\ overallStatus = "IDLE"

\* C20: while the component is mounted, isStreaming is true exactly when the
\* ref holds an open stream, and the phase reads running exactly when a
\* stream is open.
C20_FlagAgreesWithHandle ==
    mounted =>
        /\ isStreaming <=> (eventSourceRef # 0 /\ eventSourceRef \in esOpen)
        /\ (overallStatus = "RUNNING") <=> (esOpen # {})

\* the second run is streaming
C20_Witness ==
    /\ mounted
    /\ isStreaming
    /\ eventSourceRef = 2
    /\ esOpen = {2}
    /\ nAgentEvents > 0

\* C21: result and errorMessage are never both set: a captured final result
\* never coexists with a non-empty error message, whichever handler wrote the
\* message (validation, final error, transport error, docs load failure).
C21_ResultAndErrorExclusive == ~(finalResult # JsNull /\ errorMsg # "")

\* the second run ended in a pipeline error, with no result beside the message
C21_Witness ==
    /\ mounted
    /\ last.op = "final"
    /\ esCount = 2
    /\ errorMsg = "LLM quota exceeded"
    /\ finalResult = JsNull

====
